---- MODULE Spec2Model ----
(***************************************************************************)
(* AguaConecta: thread / unread-counter bookkeeping, delete cascades and   *)
(* file classification of the Convex backend (convex/threads.ts,           *)
(* convex/messages.ts, convex/projects.ts, convex/notifications.ts,        *)
(* convex/projectFiles.ts, convex/projectSetup.ts).                        *)
(*                                                                         *)
(* A Convex mutation runs as one serializable transaction: every mutation  *)
(* handler is one action.  A handler that throws (patch or delete of a     *)
(* document that does not exist) rolls the whole transaction back, so the  *)
(* action is not enabled in that case.                                     *)
(***************************************************************************)
EXTENDS Integers, Sequences, FiniteSets, TLC

\* ---------------------------------------------------------------- bounds
MaxProjects == 2
MaxThreads  == 1
MaxMessages == 2
MaxClock    == 1
HistoryMessages == 3
CascadeThreads  == 1
CascadeMessages == 2
MaxSessions == 2
MaxTypeLen == 2
MaxExtraFolders == 1
MaxFiles   == 1
SyncMessages == 2
SyncFiles    == 3
MaxTextLen   == 1
TranslateMessages == 2
MaxFeedback == 2
MaxClients  == 2
EditMessages == 2
StatusMessages == 3

\* ------------------------------------------------------------- vocabulary
Roles     == {"client", "developer"}
Undefined == "undefined"

\* an optional boolean field: absent, or present with its value
Absent  == {}
Some(v) == {v}

\* an optional document id that is undefined (document ids start at 1)
NoId == 0

\* an optional timestamp that is undefined (the clock starts at 0)
NoTime == -1

\* A string is a sequence of tokens; the tokens are the pieces the file-type
\* tests look for, and "x" stands for any other text.
Tokens == {"image/", "application/", "pdf", "document", "text", "word", "excel",
           "powerpoint", "x"}

FileTypes == UNION {[1..n -> Tokens] : n \in 0..MaxTypeLen}

\* String.prototype.startsWith / String.prototype.includes
StartsWith(s, prefix) == Len(s) >= Len(prefix) /\ SubSeq(s, 1, Len(prefix)) = prefix
Includes(s, sub) == \E i \in 1..(Len(s) - Len(sub) + 1) : SubSeq(s, i, i + Len(sub) - 1) = sub

VARIABLES
  projects,          \* table projects:      _id -> row
  threads,           \* table threads:       _id -> row
  messages,          \* table messages:      _id -> row
  notifications,     \* table notifications: _id -> row
  folders,           \* table project_folders: _id -> row
  files,             \* table project_files:   _id -> row
  clients,           \* table clients:         _id -> row
  feedback,          \* table feedback:        _id -> row
  legacy_feedback,   \* table legacy_feedback: _id -> row
  nextProject,       \* next _id the store hands out, per table
  nextThread,
  nextMessage,
  nextNotification,
  nextFolder,
  nextFile,
  nextClient,
  nextFeedback,
  nextLegacy,
  clock,             \* the wall clock read by new Date()
  seen,              \* history: role -> messages that role has read
  txn                \* mutations in flight, one per session (SpecTxn)

storeVars == <<projects, threads, messages, notifications, folders, files,
               clients, feedback, legacy_feedback,
               nextProject, nextThread, nextMessage, nextNotification, nextFolder,
               nextFile, nextClient, nextFeedback, nextLegacy, clock>>

auxVars == <<seen, txn>>

vars == <<storeVars, auxVars>>

\* The document store as one value, so that a handler and the mutations it
\* runs through ctx.runMutation compose inside one transaction.
Db ==
  [projects |-> projects, threads |-> threads, messages |-> messages,
   notifications |-> notifications, folders |-> folders, files |-> files,
   nextProject |-> nextProject, nextThread |-> nextThread,
   nextMessage |-> nextMessage, nextNotification |-> nextNotification,
   nextFolder |-> nextFolder, nextFile |-> nextFile,
   clients |-> clients, feedback |-> feedback, legacy_feedback |-> legacy_feedback,
   nextClient |-> nextClient, nextFeedback |-> nextFeedback, nextLegacy |-> nextLegacy]

Commit(db) ==
  /\ projects' = db.projects
  /\ threads' = db.threads
  /\ messages' = db.messages
  /\ notifications' = db.notifications
  /\ folders' = db.folders
  /\ files' = db.files
  /\ nextFolder' = db.nextFolder
  /\ nextFile' = db.nextFile
  /\ clients' = db.clients
  /\ feedback' = db.feedback
  /\ legacy_feedback' = db.legacy_feedback
  /\ nextClient' = db.nextClient
  /\ nextFeedback' = db.nextFeedback
  /\ nextLegacy' = db.nextLegacy
  /\ nextProject' = db.nextProject
  /\ nextThread' = db.nextThread
  /\ nextMessage' = db.nextMessage
  /\ nextNotification' = db.nextNotification

\* ctx.db.insert / ctx.db.delete on a table held as a function _id -> row
Insert(table, id, row) == [i \in DOMAIN table \cup {id} |-> IF i = id THEN row ELSE table[i]]
Remove(table, ids)     == [i \in DOMAIN table \ ids |-> table[i]]

\* ---------------------------------------------------------- notifications
\* sendTelegramAlert: the record is inserted as pending and patched to sent
\* or failed before the handler returns; tg is the delivery outcome.
sendTelegramAlert(db, thread_id, project_id, author, tg) ==
  IF author # "client" THEN db
  ELSE IF thread_id \notin DOMAIN db.threads \/ project_id \notin DOMAIN db.projects THEN db
  ELSE [db EXCEPT
          !.notifications = Insert(db.notifications, db.nextNotification,
                                   [thread_id |-> thread_id, project_id |-> project_id,
                                    status |-> tg]),
          !.nextNotification = db.nextNotification + 1]

\* --------------------------------------------------------------- messages
\* variant: the client's own send does not reset the client's counter
newUnreadClient_NoReset(thread, author, is_private) ==
  IF author = "developer" /\ ~is_private
    THEN thread.unread_count_client + 1
    ELSE thread.unread_count_client

newUnreadClient(thread, author, is_private) ==
  IF author = "developer" /\ ~is_private
    THEN thread.unread_count_client + 1
    ELSE IF author = "client" THEN 0 ELSE thread.unread_count_client

newUnreadDeveloper(thread, author, is_private) ==
  IF author = "client"
    THEN thread.unread_count_developer + 1
    ELSE IF author = "developer" THEN 0 ELSE thread.unread_count_developer

\* sendMessage with all the arguments the model keeps: args is a record of
\* thread_id, author, is_private, message_type, content, translation_enabled
sendMessageArgsTx(db, args, now, tg) ==
  LET thread_id  == args.thread_id
      author     == args.author
      is_private == args.is_private
      mid == db.nextMessage
      db1 == [db EXCEPT
                !.messages = Insert(db.messages, mid,
                                    [thread_id |-> thread_id, author |-> author,
                                     content |-> args.content,
                                     message_type |-> args.message_type,
                                     is_private |-> is_private,
                                     is_edited |-> FALSE, edited_at |-> NoTime,
                                     translation_enabled |-> args.translation_enabled,
                                     file_id |-> NoId, file_type |-> <<>>]),
                !.nextMessage = mid + 1]
  IN IF thread_id \notin DOMAIN db1.threads THEN db1
     ELSE
       LET thread == db1.threads[thread_id]
           db2 == [db1 EXCEPT
                     !.threads[thread_id].last_activity = now,
                     !.threads[thread_id].unread_count_client =
                        newUnreadClient(thread, author, is_private),
                     !.threads[thread_id].unread_count_developer =
                        newUnreadDeveloper(thread, author, is_private)]
       IN IF author = "client" /\ ~is_private
            THEN sendTelegramAlert(db2, thread_id, thread.project_id, author, tg)
            ELSE db2

\* sendMessage of a plain text message: message_type and the translation
\* fields omitted
sendMessageTx(db, thread_id, author, is_private, now, tg) ==
  sendMessageArgsTx(db, [thread_id |-> thread_id, author |-> author,
                         is_private |-> is_private, message_type |-> "text",
                         content |-> <<"hello">>, translation_enabled |-> Absent],
                    now, tg)

\* the patch of thread.project_id (updated_at, a field no property here reads)
\* throws when that project is gone
sendMessageOk(db, thread_id) ==
  thread_id \in DOMAIN db.threads => db.threads[thread_id].project_id \in DOMAIN db.projects

MessagesOf(msgs, t) == {m \in DOMAIN msgs : msgs[m].thread_id = t}

Now(now) == clock' = now

sendMessageArgs(args) ==
  \E now \in {clock, clock + 1}, tg \in {"sent", "failed"} :
    /\ Now(now)
    /\ sendMessageOk(Db, args.thread_id)
    /\ Commit(sendMessageArgsTx(Db, args, now, tg))

sendMessage(thread_id, author, is_private) ==
  \E now \in {clock, clock + 1}, tg \in {"sent", "failed"} :
    /\ Now(now)
    /\ sendMessageOk(Db, thread_id)
    /\ Commit(sendMessageTx(Db, thread_id, author, is_private, now, tg))

\* ---------------------------------------------------------------- threads
\* addDeveloperNote: the patch of the thread throws when the thread is gone,
\* which rolls the insert back.
addDeveloperNoteTx(db, thread_id, now) ==
  LET mid == db.nextMessage
  IN [db EXCEPT
        !.messages = Insert(db.messages, mid,
                            [thread_id |-> thread_id, author |-> "developer",
                             content |-> <<"note">>, message_type |-> "text",
                             is_private |-> TRUE, is_edited |-> FALSE,
                             edited_at |-> NoTime, translation_enabled |-> Absent,
                             file_id |-> NoId, file_type |-> <<>>]),
        !.nextMessage = mid + 1,
        !.threads[thread_id].last_activity = now]

addDeveloperNote(thread_id) ==
  \E now \in {clock, clock + 1} :
    /\ Now(now)
    /\ thread_id \in DOMAIN threads
    /\ Commit(addDeveloperNoteTx(Db, thread_id, now))

\* createThread: created_by is "client", "developer" or omitted (Undefined);
\* has_initial says whether initial_message was supplied.
createThreadTx(db, project_id, created_by, has_initial, now, tg) ==
  LET threadId == db.nextThread
      db1 == [db EXCEPT
                !.threads = Insert(db.threads, threadId,
                   [project_id |-> project_id,
                    last_activity |-> now,
                    unread_count_client |-> IF created_by = "developer" THEN 1 ELSE 0,
                    unread_count_developer |-> IF created_by = "client" THEN 1 ELSE 0,
                    is_archived |-> Absent,
                    status |-> "new"]),
                !.nextThread = threadId + 1]
      db2 == IF has_initial
               THEN sendMessageTx(db1, threadId,
                                  IF created_by = Undefined THEN "client" ELSE created_by,
                                  FALSE, now, tg)
               ELSE db1
  IN db2

createThread(project_id, created_by, has_initial) ==
  \E now \in {clock, clock + 1}, tg \in {"sent", "failed"} :
    /\ Now(now)
    /\ project_id \in DOMAIN projects
    /\ Commit(createThreadTx(Db, project_id, created_by, has_initial, now, tg))

\* variant: the messages are deleted and the thread row is left behind
deleteThreadTx_KeepThread(db, thread_id) ==
  [db EXCEPT !.messages = Remove(db.messages, MessagesOf(db.messages, thread_id))]

deleteThreadTx(db, thread_id) ==
  LET msgs == MessagesOf(db.messages, thread_id)
  IN [db EXCEPT !.messages = Remove(db.messages, msgs),
                !.threads = Remove(db.threads, {thread_id})]

deleteThread(thread_id) ==
  /\ thread_id \in DOMAIN threads
  /\ Commit(deleteThreadTx(Db, thread_id))
  /\ UNCHANGED clock

toggleThreadArchiveTx(db, thread_id, archived, now) ==
  [db EXCEPT !.threads[thread_id].is_archived = Some(archived),
             !.threads[thread_id].last_activity = now]

toggleThreadArchive(thread_id, archived) ==
  \E now \in {clock, clock + 1} :
    /\ Now(now)
    /\ thread_id \in DOMAIN threads
    /\ Commit(toggleThreadArchiveTx(Db, thread_id, archived, now))

\* variant: the reader argument bound to the wrong counter
markThreadAsReadPatch_Swapped(thread, reader) ==
  IF reader = "client"
    THEN [thread EXCEPT !.unread_count_developer = 0]
    ELSE [thread EXCEPT !.unread_count_client = 0]

markThreadAsReadPatch(thread, reader) ==
  IF reader = "client"
    THEN [thread EXCEPT !.unread_count_client = 0]
    ELSE [thread EXCEPT !.unread_count_developer = 0]

markThreadAsReadTx(db, thread_id, reader) ==
  [db EXCEPT !.threads[thread_id] = markThreadAsReadPatch(@, reader)]

markThreadAsRead(thread_id, reader) ==
  /\ thread_id \in DOMAIN threads
  /\ Commit(markThreadAsReadTx(Db, thread_id, reader))
  /\ UNCHANGED clock

\* getTotalUnreadCount: the filter is q.eq(q.field("is_archived"), false); a
\* row that has no is_archived field yields undefined there, which is not
\* equal to false.
RECURSIVE SumUnread(_, _, _)
SumUnread(rows, ids, viewer) ==
  IF ids = {} THEN 0
  ELSE LET t == CHOOSE x \in ids : TRUE
           unreadCount == IF viewer = "developer"
                            THEN rows[t].unread_count_developer
                            ELSE rows[t].unread_count_client
       IN unreadCount + SumUnread(rows, ids \ {t}, viewer)

getTotalUnreadCountOn(rows, viewer) ==
  SumUnread(rows, {t \in DOMAIN rows : rows[t].is_archived = Some(FALSE)}, viewer)

getTotalUnreadCount(viewer) == getTotalUnreadCountOn(threads, viewer)

\* --------------------------------------------------------------- projects
createProjectTx(db) ==
  [db EXCEPT !.projects = Insert(db.projects, db.nextProject, [is_archived |-> Absent]),
             !.nextProject = db.nextProject + 1]

createProject ==
  /\ Commit(createProjectTx(Db))
  /\ UNCHANGED clock

ThreadsOf(db, project_id) == {t \in DOMAIN db.threads : db.threads[t].project_id = project_id}

\* updateProjectStatus for a project that exists (the patch of the project
\* throws otherwise).  The project's status and updated_at are fields no
\* property here reads; has_note says whether developer_note was supplied.
\* With a note the status message goes to the project's newest thread, or to
\* a status thread made for it, and that thread's client counter is raised.
updateProjectStatusTx(db, project_id, has_note, now) ==
  IF ~has_note THEN db
  ELSE
    LET ths == ThreadsOf(db, project_id)
        threadId == IF ths # {} THEN CHOOSE t \in ths : \A u \in ths : u <= t
                    ELSE db.nextThread
        db1 == IF ths # {} THEN db
               ELSE [db EXCEPT
                       !.threads = Insert(db.threads, threadId,
                          [project_id |-> project_id, last_activity |-> now,
                           unread_count_client |-> 1, unread_count_developer |-> 0,
                           is_archived |-> Absent, status |-> "new"]),
                       !.nextThread = threadId + 1]
    IN [db1 EXCEPT
          !.messages = Insert(db1.messages, db1.nextMessage,
             [thread_id |-> threadId, author |-> "developer",
              content |-> <<"project status", "note">>,
              message_type |-> "status_update", is_private |-> FALSE,
              is_edited |-> FALSE, edited_at |-> NoTime, translation_enabled |-> Absent,
              file_id |-> NoId, file_type |-> <<>>]),
          !.nextMessage = db1.nextMessage + 1,
          !.threads[threadId].last_activity = now,
          !.threads[threadId].unread_count_client = db1.threads[threadId].unread_count_client + 1]

updateProjectStatus(project_id, has_note) ==
  \E now \in {clock, clock + 1} :
    /\ project_id \in DOMAIN projects
    /\ Now(now)
    /\ Commit(updateProjectStatusTx(Db, project_id, has_note, now))

\* variant: the cascade skips the messages of the project's threads
deleteProjectTx_KeepMessages(db, project_id) ==
  LET ths == ThreadsOf(db, project_id)
      gone == {n \in DOMAIN db.notifications :
                 \/ db.notifications[n].thread_id \in ths
                 \/ db.notifications[n].project_id = project_id}
  IN [db EXCEPT
        !.notifications = Remove(db.notifications, gone),
        !.threads = Remove(db.threads, ths),
        !.projects = Remove(db.projects, {project_id})]

deleteProjectTx(db, project_id) ==
  LET ths == ThreadsOf(db, project_id)
      msgs == {m \in DOMAIN db.messages : db.messages[m].thread_id \in ths}
      threadNotifications ==
        {n \in DOMAIN db.notifications : db.notifications[n].thread_id \in ths}
      projectNotifications ==
        {n \in DOMAIN db.notifications : db.notifications[n].project_id = project_id}
  IN [db EXCEPT
        !.messages = Remove(db.messages, msgs),
        !.notifications = Remove(db.notifications, threadNotifications \cup projectNotifications),
        !.threads = Remove(db.threads, ths),
        !.projects = Remove(db.projects, {project_id})]

deleteProject(project_id) ==
  /\ project_id \in DOMAIN projects
  /\ Commit(deleteProjectTx(Db, project_id))
  /\ UNCHANGED clock

\* ---------------------------------------------------------- project files
\* Folder rows keep project_id and name, file rows project_id, folder_id and
\* file_type; the timestamps (created_at, uploaded_at, moved_at) are not kept.
DefaultFolders == <<"Images", "Documents", "PDFs", "Other">>

FoldersOf(fs, project_id) == {f \in DOMAIN fs : fs[f].project_id = project_id}

\* variant: the folders are created without looking for existing ones
setupDefaultFoldersTx_NoCheck(db, project_id) ==
  LET n == db.nextFolder
      row(i) == [project_id |-> project_id, name |-> DefaultFolders[i]]
  IN [db EXCEPT
        !.folders = Insert(Insert(Insert(Insert(db.folders, n, row(1)),
                                         n + 1, row(2)), n + 2, row(3)), n + 3, row(4)),
        !.nextFolder = n + 4]

setupDefaultFoldersTx(db, project_id) ==
  IF FoldersOf(db.folders, project_id) # {} THEN db
  ELSE LET n == db.nextFolder
           row(i) == [project_id |-> project_id, name |-> DefaultFolders[i]]
       IN [db EXCEPT
             !.folders = Insert(Insert(Insert(Insert(db.folders, n, row(1)),
                                              n + 1, row(2)), n + 2, row(3)), n + 3, row(4)),
             !.nextFolder = n + 4]

setupDefaultFolders(project_id) ==
  /\ Commit(setupDefaultFoldersTx(Db, project_id))
  /\ UNCHANGED clock

createFolderTx(db, project_id, name) ==
  [db EXCEPT !.folders = Insert(db.folders, db.nextFolder,
                                [project_id |-> project_id, name |-> name]),
             !.nextFolder = db.nextFolder + 1]

createFolder(project_id, name) ==
  /\ Commit(createFolderTx(Db, project_id, name))
  /\ UNCHANGED clock

\* folders.forEach(...) in _id order: the last folder with a name wins
folderMap(fs, project_id, name) ==
  LET named == {f \in FoldersOf(fs, project_id) : fs[f].name = name}
  IN IF named = {} THEN NoId ELSE CHOOSE f \in named : \A g \in named : g <= f

\* folders[0]?._id
firstFolder(fs, project_id) ==
  LET own == FoldersOf(fs, project_id)
  IN IF own = {} THEN NoId ELSE CHOOSE f \in own : \A g \in own : f <= g

\* a || b on optional ids
Or(a, b) == IF a # NoId THEN a ELSE b

\* variant: image/ is looked for anywhere in the type
getAutoFolderId_ImageAnywhere(fs, project_id, fileType) ==
  LET other == Or(folderMap(fs, project_id, "Other"), firstFolder(fs, project_id))
  IN IF Includes(fileType, <<"image/">>)
       THEN Or(folderMap(fs, project_id, "Images"), other)
     ELSE IF fileType = <<"application/", "pdf">>
       THEN Or(folderMap(fs, project_id, "PDFs"), other)
     ELSE IF \E w \in {"document", "text", "word", "excel", "powerpoint"} :
               Includes(fileType, <<w>>)
       THEN Or(folderMap(fs, project_id, "Documents"), other)
     ELSE other

\* getAutoFolderId after its setupDefaultFolders call: fs is the folder table
\* that call leaves behind
getAutoFolderId(fs, project_id, fileType) ==
  LET other == Or(folderMap(fs, project_id, "Other"), firstFolder(fs, project_id))
  IN IF StartsWith(fileType, <<"image/">>)
       THEN Or(folderMap(fs, project_id, "Images"), other)
     ELSE IF fileType = <<"application/", "pdf">>
       THEN Or(folderMap(fs, project_id, "PDFs"), other)
     ELSE IF \E w \in {"document", "text", "word", "excel", "powerpoint"} :
               Includes(fileType, <<w>>)
       THEN Or(folderMap(fs, project_id, "Documents"), other)
     ELSE other

\* variant: the folder is looked up without setting the default folders up
addFileToProjectTx_NoSetup(db, project_id, folder_id, file_type, message_id) ==
  LET targetFolderId == IF folder_id = NoId
                          THEN getAutoFolderId(db.folders, project_id, file_type)
                          ELSE folder_id
  IN [db EXCEPT
        !.files = Insert(db.files, db.nextFile,
                         [project_id |-> project_id, folder_id |-> targetFolderId,
                          file_type |-> file_type, message_id |-> message_id]),
        !.nextFile = db.nextFile + 1]

addFileToProjectTx(db, project_id, folder_id, file_type, message_id) ==
  LET db1 == IF folder_id = NoId THEN setupDefaultFoldersTx(db, project_id) ELSE db
      targetFolderId == IF folder_id = NoId
                          THEN getAutoFolderId(db1.folders, project_id, file_type)
                          ELSE folder_id
  IN [db1 EXCEPT
        !.files = Insert(db1.files, db1.nextFile,
                         [project_id |-> project_id, folder_id |-> targetFolderId,
                          file_type |-> file_type, message_id |-> message_id]),
        !.nextFile = db1.nextFile + 1]

\* addFileToProject as an upload: message_id omitted
addFileToProject(project_id, folder_id, file_type) ==
  /\ Commit(addFileToProjectTx(Db, project_id, folder_id, file_type, NoId))
  /\ UNCHANGED clock

\* variant: a patch whose folder_id is undefined leaves the field as it is
moveFileToFolderTx_SkipUndefined(db, file_id, folder_id) ==
  IF folder_id = NoId THEN db ELSE [db EXCEPT !.files[file_id].folder_id = folder_id]

\* moveFileToFolder: the patch with folder_id undefined removes the field
moveFileToFolderTx(db, file_id, folder_id) ==
  [db EXCEPT !.files[file_id].folder_id = folder_id]

moveFileToFolder(file_id, folder_id) ==
  /\ file_id \in DOMAIN files
  /\ Commit(moveFileToFolderTx(Db, file_id, folder_id))
  /\ UNCHANGED clock

\* deleteFileFromProject: the project file goes, its message stays
deleteFileFromProjectTx(db, file_id) ==
  [db EXCEPT !.files = Remove(db.files, {file_id})]

deleteFileFromProject(file_id) ==
  /\ file_id \in DOMAIN files
  /\ Commit(deleteFileFromProjectTx(Db, file_id))
  /\ UNCHANGED clock

\* the files of a project that have no folder_id
unorganizedFiles(fl, project_id) ==
  {f \in DOMAIN fl : fl[f].project_id = project_id /\ fl[f].folder_id = NoId}

\* projectFiles.autoOrganizeFiles: the first getAutoFolderId call sets the
\* default folders up, the later ones find them
autoOrganizeFilesTx(db, project_id) ==
  LET todo == unorganizedFiles(db.files, project_id)
      db1  == IF todo = {} THEN db ELSE setupDefaultFoldersTx(db, project_id)
      target(f) == getAutoFolderId(db1.folders, project_id, db.files[f].file_type)
  IN [db1 EXCEPT
        !.files = [f \in DOMAIN db.files |->
                     IF f \in todo /\ target(f) # NoId
                       THEN [db.files[f] EXCEPT !.folder_id = target(f)]
                       ELSE db.files[f]]]

\* filesOrganized as autoOrganizeFiles returns it
autoOrganizeFilesCount(db, project_id) ==
  LET todo == unorganizedFiles(db.files, project_id)
      db1  == IF todo = {} THEN db ELSE setupDefaultFoldersTx(db, project_id)
  IN Cardinality({f \in todo :
                    getAutoFolderId(db1.folders, project_id, db.files[f].file_type) # NoId})

autoOrganizeFiles(project_id) ==
  /\ Commit(autoOrganizeFilesTx(Db, project_id))
  /\ UNCHANGED clock

\* projectSetup.autoOrganizeProjectFiles: the target folder of one file
organizeTarget(fs, project_id, file_type) ==
  LET other == folderMap(fs, project_id, "Other")
  IN IF StartsWith(file_type, <<"image/">>)
       THEN Or(folderMap(fs, project_id, "Images"), other)
     ELSE IF file_type = <<"application/", "pdf">>
       THEN Or(folderMap(fs, project_id, "PDFs"), other)
     ELSE IF \E w \in {"document", "text", "word", "excel", "powerpoint"} :
               Includes(file_type, <<w>>)
       THEN Or(folderMap(fs, project_id, "Documents"), other)
     ELSE other

autoOrganizeProjectFilesTx(db, project_id) ==
  LET todo == unorganizedFiles(db.files, project_id)
  IN [db EXCEPT
        !.files = [f \in DOMAIN db.files |->
                     IF f \in todo
                       THEN [db.files[f] EXCEPT
                               !.folder_id = organizeTarget(db.folders, project_id,
                                                            db.files[f].file_type)]
                       ELSE db.files[f]]]

\* filesOrganized as autoOrganizeProjectFiles returns it: organizedCount++
\* follows the patch whether or not a target folder was found
autoOrganizeProjectFilesCount(db, project_id) ==
  Cardinality(unorganizedFiles(db.files, project_id))

autoOrganizeProjectFiles(project_id) ==
  /\ Commit(autoOrganizeProjectFilesTx(Db, project_id))
  /\ UNCHANGED clock

\* ------------------------------------------------- files sent in messages
\* sendFileMessage: the message, the thread's counters, the project's
\* updated_at (a patch that throws when the project is gone) and the project
\* file, which addFileToProject files automatically.
sendFileMessageTx(db, thread_id, author, file_id, file_type, now) ==
  LET mid == db.nextMessage
      db1 == [db EXCEPT
                !.messages = Insert(db.messages, mid,
                                    [thread_id |-> thread_id, author |-> author,
                                     content |-> <<"file">>, message_type |-> "file",
                                     is_private |-> FALSE, is_edited |-> FALSE,
                                     edited_at |-> NoTime, translation_enabled |-> Absent,
                                     file_id |-> file_id, file_type |-> file_type]),
                !.nextMessage = mid + 1]
  IN IF thread_id \notin DOMAIN db1.threads THEN db1
     ELSE
       LET thread == db1.threads[thread_id]
           db2 == [db1 EXCEPT
                     !.threads[thread_id].last_activity = now,
                     !.threads[thread_id].unread_count_client =
                        IF author = "developer" THEN thread.unread_count_client + 1 ELSE 0,
                     !.threads[thread_id].unread_count_developer =
                        IF author = "client" THEN thread.unread_count_developer + 1 ELSE 0]
       IN addFileToProjectTx(db2, thread.project_id, NoId, file_type, mid)

sendFileMessage(thread_id, author, file_id, file_type) ==
  \E now \in {clock, clock + 1} :
    /\ Now(now)
    /\ sendMessageOk(Db, thread_id)
    /\ Commit(sendFileMessageTx(Db, thread_id, author, file_id, file_type, now))

\* the file messages of the project's threads that carry a file and have no
\* project file yet
syncTodo(db, project_id) ==
  {m \in DOMAIN db.messages :
     /\ db.messages[m].thread_id \in ThreadsOf(db, project_id)
     /\ db.messages[m].message_type = "file"
     /\ db.messages[m].file_id # NoId
     /\ ~\E f \in DOMAIN db.files : db.files[f].message_id = m}

\* the inserts, thread by thread and message by message
RECURSIVE syncInsert(_, _, _)
syncInsert(db, project_id, todo) ==
  IF todo = {} THEN db
  ELSE LET m == CHOOSE x \in todo : \A y \in todo :
                  \/ db.messages[x].thread_id < db.messages[y].thread_id
                  \/ (db.messages[x].thread_id = db.messages[y].thread_id /\ x <= y)
       IN syncInsert([db EXCEPT
                        !.files = Insert(db.files, db.nextFile,
                                         [project_id |-> project_id, folder_id |-> NoId,
                                          file_type |-> db.messages[m].file_type,
                                          message_id |-> m]),
                        !.nextFile = db.nextFile + 1],
                     project_id, todo \ {m})

\* variant: every file message is inserted, whether or not it has a project file
syncMessageFilesToProjectTx_NoLookup(db, project_id) ==
  syncInsert(db, project_id,
             {m \in DOMAIN db.messages :
                /\ db.messages[m].thread_id \in ThreadsOf(db, project_id)
                /\ db.messages[m].message_type = "file"
                /\ db.messages[m].file_id # NoId})

syncMessageFilesToProjectTx(db, project_id) ==
  syncInsert(db, project_id, syncTodo(db, project_id))

\* syncedCount as syncMessageFilesToProject returns it
syncedCount(db, project_id) ==
  syncMessageFilesToProjectTx(db, project_id).nextFile - db.nextFile

syncMessageFilesToProject(project_id) ==
  /\ Commit(syncMessageFilesToProjectTx(Db, project_id))
  /\ UNCHANGED clock

\* setupProjectFileSystem: the three mutations in one transaction
setupProjectFileSystemTx(db, project_id) ==
  autoOrganizeProjectFilesTx(
    syncMessageFilesToProjectTx(setupDefaultFoldersTx(db, project_id), project_id),
    project_id)

\* checkProjectSetup: needsSetup, on which the files view calls
\* setupProjectFileSystem
checkProjectSetup(db, project_id) ==
  LET foldersCount == Cardinality(FoldersOf(db.folders, project_id))
      filesCount == Cardinality({f \in DOMAIN db.files : db.files[f].project_id = project_id})
      hasDefaultFolders == foldersCount >= 3
      hasProjectFiles == filesCount > 0
  IN [isSetup |-> hasDefaultFolders, foldersCount |-> foldersCount,
      filesCount |-> filesCount,
      needsSetup |-> ~hasDefaultFolders \/ (~hasProjectFiles /\ foldersCount > 0)]

\* foldersCreated, filesSynced and filesOrganized as setupProjectFileSystem
\* returns them
setupProjectFileSystemResult(db, project_id) ==
  LET d1 == setupDefaultFoldersTx(db, project_id)
      d2 == syncMessageFilesToProjectTx(d1, project_id)
  IN [foldersCreated |-> d1.nextFolder - db.nextFolder,
      filesSynced    |-> syncedCount(d1, project_id),
      filesOrganized |-> autoOrganizeProjectFilesCount(d2, project_id)]

setupProjectFileSystem(project_id) ==
  /\ Commit(setupProjectFileSystemTx(Db, project_id))
  /\ UNCHANGED clock

\* ------------------------------------------------------------ translation
\* A text is a sequence of words; "hello" is one of detectLanguage's English
\* words, "hola" one of its Spanish words, "x" a word of neither list.
Words == {"hello", "hola", "x"}

Texts == UNION {[1..n -> Words] : n \in 1..MaxTextLen}

\* What a translation service answers: a JSON body, a response that is not
\* ok, a time-out (abort) or a network error.  responseStatus and hasData
\* are MyMemory's responseStatus and responseData; translatedText is the
\* text the body carries, the empty text when it carries none.
Answers ==
  [kind : {"json"}, responseStatus : {200, 403}, hasData : BOOLEAN,
   translatedText : {<<>>, <<"translated">>}]
    \cup
  [kind : {"non200", "timeout", "network"}, responseStatus : {0}, hasData : {FALSE},
   translatedText : {<<>>}]

Failed(answer) == answer.kind # "json"

cleanMessage(text) == <<"balloon", "quote">> \o text \o <<"quote">>

\* tryRealTranslation: MyMemory, then LibreTranslate, then the clean fallback;
\* mm and lt are the answers of the two services
tryRealTranslation(text, targetLang, sourceLang, mm, lt) ==
  IF mm.kind = "json" /\ mm.responseStatus = 200 /\ mm.hasData
    THEN [originalText |-> text, translatedText |-> mm.translatedText,
          targetLanguage |-> targetLang, success |-> TRUE]
  ELSE IF lt.kind = "json"
    THEN [originalText |-> text,
          translatedText |-> IF lt.translatedText # <<>> THEN lt.translatedText ELSE text,
          targetLanguage |-> targetLang, success |-> TRUE]
  ELSE [originalText |-> text, translatedText |-> cleanMessage(text),
        targetLanguage |-> targetLang, success |-> TRUE]

translateText(text, targetLang, sourceLang, mm, lt) ==
  IF sourceLang = targetLang /\ sourceLang # "auto"
    THEN [originalText |-> text, translatedText |-> text,
          targetLanguage |-> targetLang, success |-> TRUE]
    ELSE tryRealTranslation(text, targetLang, sourceLang, mm, lt)

getTargetLanguage(userRole) == IF userRole = "developer" THEN "es" ELSE "en"

detectLanguage(text) ==
  LET spanishCount == Cardinality({i \in DOMAIN text : text[i] = "hola"})
      englishCount == Cardinality({i \in DOMAIN text : text[i] = "hello"})
  IN IF spanishCount > englishCount THEN "es"
     ELSE IF englishCount > spanishCount THEN "en"
     ELSE "auto"

\* phraseTranslations on the words texts are made of: hello and hola are
\* each other's entry, "x" has none
phraseTranslations(sourceLang, targetLang, word) ==
  IF sourceLang = "en" /\ targetLang = "es" /\ word = "hello" THEN "hola"
  ELSE IF sourceLang = "es" /\ targetLang = "en" /\ word = "hola" THEN "hello"
  ELSE word

\* the first letter put in upper case
capitalize(word) ==
  IF word = "hello" THEN "Hello" ELSE IF word = "hola" THEN "Hola"
  ELSE IF word = "x" THEN "X" ELSE word

\* fallbackPhraseTranslate: the whole text as a phrase, else phrase by phrase
\* with the first letter capitalized, else the tagged note.  No function of
\* the module calls it.
fallbackPhraseTranslate(text, targetLang, sourceLang) ==
  LET finalSourceLang == IF sourceLang = "auto" THEN detectLanguage(text) ELSE sourceLang
      replaced == [i \in DOMAIN text |->
                     phraseTranslations(finalSourceLang, targetLang, text[i])]
  IN IF finalSourceLang = "auto" \/ finalSourceLang = targetLang
       THEN [originalText |-> text, translatedText |-> text,
             targetLanguage |-> targetLang, success |-> TRUE]
     ELSE IF Len(text) = 1 /\ replaced # text
       THEN [originalText |-> text, translatedText |-> replaced,
             targetLanguage |-> targetLang, success |-> TRUE]
     ELSE IF replaced # text
       THEN [originalText |-> text,
             translatedText |-> [replaced EXCEPT ![1] = capitalize(@)],
             targetLanguage |-> targetLang, success |-> TRUE]
     ELSE [originalText |-> text,
           translatedText |-> <<"[", "message in", finalSourceLang, "quote">> \o text
                                \o <<"quote", "]">>,
           targetLanguage |-> targetLang, success |-> TRUE]

finalDetectedLang(userRole, text) ==
  IF detectLanguage(text) = "auto"
    THEN (IF userRole = "developer" THEN "en" ELSE "es")
    ELSE detectLanguage(text)

\* the sendMessage arguments handleSendMessage ends up with
handleSendMessageArgs(thread_id, userRole, originalMessage, mm, lt) ==
  LET lang   == finalDetectedLang(userRole, originalMessage)
      target == getTargetLanguage(userRole)
      result == translateText(originalMessage, target, lang, mm, lt)
      translated_content == IF lang # target /\ result.success
                              THEN result.translatedText ELSE <<>>
      translation_enabled == IF lang # target /\ ~result.success THEN FALSE ELSE TRUE
  IN [thread_id |-> thread_id, author |-> userRole, is_private |-> FALSE,
      message_type |-> "text",
      content |-> IF translated_content # <<>> THEN translated_content ELSE originalMessage,
      translation_enabled |-> Some(translation_enabled)]

handleSendMessage(thread_id, userRole, originalMessage, mm, lt) ==
  sendMessageArgs(handleSendMessageArgs(thread_id, userRole, originalMessage, mm, lt))

\* ------------------------------------------------------- thread status
Statuses == {"new", "acknowledged", "in_progress", "resolved", "closed"}

\* variant: the updater's own counter is left as it was
updateThreadStatusTx_NoReset(db, thread_id, status, updated_by, has_note, now) ==
  LET thread == db.threads[thread_id]
  IN [db EXCEPT
        !.threads[thread_id] =
           [thread EXCEPT
              !.status = status,
              !.last_activity = now,
              !.unread_count_client =
                 IF updated_by = "developer" THEN thread.unread_count_client + 1 ELSE @,
              !.unread_count_developer =
                 IF updated_by = "client" THEN thread.unread_count_developer + 1 ELSE @],
        !.messages = Insert(db.messages, db.nextMessage,
           [thread_id |-> thread_id, author |-> updated_by,
            content |-> IF has_note THEN <<"status", status, "note">> ELSE <<"status", status>>,
            message_type |-> "status_update", is_private |-> FALSE,
            is_edited |-> FALSE, edited_at |-> NoTime, translation_enabled |-> Absent,
            file_id |-> NoId, file_type |-> <<>>]),
        !.nextMessage = db.nextMessage + 1]

\* updateThreadStatus, for a thread that exists (the first patch throws
\* otherwise): status and last_activity, the status message, the counters
updateThreadStatusTx(db, thread_id, status, updated_by, has_note, now) ==
  LET thread == db.threads[thread_id]
  IN [db EXCEPT
        !.threads[thread_id] =
           [thread EXCEPT
              !.status = status,
              !.last_activity = now,
              !.unread_count_client =
                 IF updated_by = "developer" THEN thread.unread_count_client + 1 ELSE 0,
              !.unread_count_developer =
                 IF updated_by = "client" THEN thread.unread_count_developer + 1 ELSE 0],
        !.messages = Insert(db.messages, db.nextMessage,
           [thread_id |-> thread_id, author |-> updated_by,
            content |-> IF has_note THEN <<"status", status, "note">> ELSE <<"status", status>>,
            message_type |-> "status_update", is_private |-> FALSE,
            is_edited |-> FALSE, edited_at |-> NoTime, translation_enabled |-> Absent,
            file_id |-> NoId, file_type |-> <<>>]),
        !.nextMessage = db.nextMessage + 1]

updateThreadStatus(thread_id, status, updated_by, has_note) ==
  \E now \in {clock, clock + 1} :
    /\ thread_id \in DOMAIN threads
    /\ Now(now)
    /\ Commit(updateThreadStatusTx(Db, thread_id, status, updated_by, has_note, now))

\* ------------------------------------------------- editing and deleting
\* What a call returns besides a message id: NoId for null, Error for a throw
Error == -2

\* variant: any role may edit any message
editMessageTx_NoAuthorCheck(db, message_id, new_content, editor, now) ==
  IF message_id \notin DOMAIN db.messages THEN [db |-> db, result |-> NoId]
  ELSE LET message == db.messages[message_id]
       IN IF message.thread_id \notin DOMAIN db.threads
            THEN [db |-> db, result |-> Error]
          ELSE [db |-> [db EXCEPT !.messages[message_id].content = new_content,
                                  !.messages[message_id].is_edited = TRUE,
                                  !.messages[message_id].edited_at = now,
                                  !.threads[message.thread_id].last_activity = now],
                result |-> message_id]

\* editMessage: the store the call leaves and what it returns; a throw
\* (another author's message, or the patch of a thread that is gone) rolls
\* the transaction back
editMessageTx(db, message_id, new_content, editor, now) ==
  IF message_id \notin DOMAIN db.messages THEN [db |-> db, result |-> NoId]
  ELSE LET message == db.messages[message_id]
       IN IF message.author # editor THEN [db |-> db, result |-> Error]
          ELSE IF message.thread_id \notin DOMAIN db.threads
            THEN [db |-> db, result |-> Error]
          ELSE [db |-> [db EXCEPT !.messages[message_id].content = new_content,
                                  !.messages[message_id].is_edited = TRUE,
                                  !.messages[message_id].edited_at = now,
                                  !.threads[message.thread_id].last_activity = now],
                result |-> message_id]

editMessage(message_id, new_content, editor) ==
  \E now \in {clock, clock + 1} :
    /\ editMessageTx(Db, message_id, new_content, editor, now).result = message_id
    /\ Now(now)
    /\ Commit(editMessageTx(Db, message_id, new_content, editor, now).db)

\* deleteMessage: a soft delete, by the author or the developer
deleteMessageTx(db, message_id, deleter, now) ==
  IF message_id \notin DOMAIN db.messages THEN [db |-> db, result |-> NoId]
  ELSE LET message == db.messages[message_id]
       IN IF message.author # deleter /\ deleter # "developer"
            THEN [db |-> db, result |-> Error]
          ELSE [db |-> [db EXCEPT !.messages[message_id].content = <<"*Mensaje eliminado*">>,
                                  !.messages[message_id].is_edited = TRUE,
                                  !.messages[message_id].edited_at = now],
                result |-> message_id]

deleteMessage(message_id, deleter) ==
  \E now \in {clock, clock + 1} :
    /\ deleteMessageTx(Db, message_id, deleter, now).result = message_id
    /\ Now(now)
    /\ Commit(deleteMessageTx(Db, message_id, deleter, now).db)

\* ---------------------------------------------------------------- queries
\* Ids are handed out in creation order, so the by_thread index read in
\* descending order is the thread's message ids from the newest down.
RECURSIVE Desc(_)
Desc(S) == IF S = {} THEN <<>>
           ELSE LET m == CHOOSE x \in S : \A y \in S : y <= x
                IN <<m>> \o Desc(S \ {m})

Take(s, n) == SubSeq(s, 1, IF n < Len(s) THEN n ELSE Len(s))

Reverse(s) == [i \in 1..Len(s) |-> s[Len(s) + 1 - i]]

\* getThreadMessages: the ids of the messages returned, oldest first;
\* include_private is Absent, Some(FALSE) or Some(TRUE), limit 0 stands for
\* an omitted limit
getThreadMessages(msgs, thread_id, include_private, limit) ==
  LET all == Desc(MessagesOf(msgs, thread_id))
      taken == IF limit # 0 THEN Take(all, limit) ELSE all
      NotPrivate(m) == ~msgs[m].is_private
      filteredMessages == IF include_private = Some(TRUE) THEN taken
                          ELSE SelectSeq(taken, NotPrivate)
  IN Reverse(filteredMessages)

\* getProjectThreads: the details returned for the project's threads (the
\* final sort only orders them); last_message is NoId for null
getProjectThreads(db, project_id, viewer) ==
  {[thread |-> t,
    last_message |-> LET ms == Take(Desc(MessagesOf(db.messages, t)), 1)
                     IN IF ms = <<>> THEN NoId ELSE ms[1],
    unread_count |-> IF viewer = "developer"
                       THEN db.threads[t].unread_count_developer
                       ELSE db.threads[t].unread_count_client]
   : t \in {u \in DOMAIN db.threads : db.threads[u].project_id = project_id}}

\* String.toLowerCase on the words texts are made of
toLowerCase(s) ==
  [i \in 1..Len(s) |-> IF s[i] = "NOTE" THEN "note"
                       ELSE IF s[i] = "HELLO" THEN "hello" ELSE s[i]]

\* searchMessages: the ids of the messages returned (the final sort only
\* orders them); thread_id and project_id NoId and limit 0 stand for omitted
searchMessages(db, query, thread_id, project_id, include_private, limit) ==
  LET n == IF limit # 0 THEN limit ELSE 50
      scanned == IF thread_id # NoId THEN MessagesOf(db.messages, thread_id)
                 ELSE DOMAIN db.messages
      allMessages == {m \in scanned : Cardinality({k \in scanned : k < m}) < n}
      threadIds == {t \in DOMAIN db.threads : db.threads[t].project_id = project_id}
      inProject == IF project_id # NoId
                     THEN {m \in allMessages : db.messages[m].thread_id \in threadIds}
                     ELSE allMessages
      visible == IF include_private # Some(TRUE)
                   THEN {m \in inProject : ~db.messages[m].is_private}
                   ELSE inProject
  IN {m \in visible : Includes(toLowerCase(db.messages[m].content), toLowerCase(query))}

\* -------------------------------------------------------------- migration
\* Client rows keep name; feedback rows subject, status and whether they have
\* developer_notes; legacy_feedback rows subject and migrated_to_thread.
MainClientName == "Cliente Principal"

createClient(name) ==
  /\ Commit([Db EXCEPT !.clients = Insert(clients, nextClient, [name |-> name]),
                       !.nextClient = nextClient + 1])
  /\ UNCHANGED clock

\* feedback.create
createFeedback(subject) ==
  /\ Commit([Db EXCEPT
               !.feedback = Insert(feedback, nextFeedback,
                                   [subject |-> subject, status |-> "new",
                                    developer_notes |-> FALSE]),
               !.nextFeedback = nextFeedback + 1])
  /\ UNCHANGED clock

\* feedback.updateStatus
updateStatus(id, status, developer_notes) ==
  /\ id \in DOMAIN feedback
  /\ Commit([Db EXCEPT !.feedback[id].status = status,
                       !.feedback[id].developer_notes = developer_notes])
  /\ UNCHANGED clock

\* the client of that name the .first() of the query returns, NoId if none
existingClient(db, name) ==
  LET named == {c \in DOMAIN db.clients : db.clients[c].name = name}
  IN IF named = {} THEN NoId ELSE CHOOSE c \in named : \A d \in named : c <= d

\* one round of the loop over the feedback rows: the legacy record, the
\* thread, its message(s), and the thread reference written to the first
\* legacy record that has the subject
migrateOne(db, fb, mainProjectId, now) ==
  LET lid == db.nextLegacy
      tid == db.nextThread
      mid == db.nextMessage
      msg(author, content) ==
        [thread_id |-> tid, author |-> author, content |-> content,
         message_type |-> "text", is_private |-> FALSE, is_edited |-> FALSE,
         edited_at |-> NoTime, translation_enabled |-> Absent,
         file_id |-> NoId, file_type |-> <<>>]
      legacy1 == Insert(db.legacy_feedback, lid,
                        [subject |-> fb.subject, migrated_to_thread |-> NoId])
      first == CHOOSE l \in DOMAIN legacy1 :
                 /\ legacy1[l].subject = fb.subject
                 /\ \A k \in DOMAIN legacy1 : legacy1[k].subject = fb.subject => l <= k
      msgs1 == Insert(db.messages, mid, msg("client", <<"description">>))
  IN [db EXCEPT
        !.legacy_feedback = [legacy1 EXCEPT ![first].migrated_to_thread = tid],
        !.nextLegacy = lid + 1,
        !.threads = Insert(db.threads, tid,
                           [project_id |-> mainProjectId, last_activity |-> now,
                            unread_count_client |-> 0,
                            unread_count_developer |-> IF fb.status = "new" THEN 1 ELSE 0,
                            is_archived |-> Absent,
                            status |-> IF fb.status = "new" THEN "new"
                                       ELSE IF fb.status = "in_progress" THEN "in_progress"
                                       ELSE IF fb.status = "completed" THEN "resolved"
                                       ELSE "closed"]),
        !.nextThread = tid + 1,
        !.messages = IF fb.developer_notes
                       THEN Insert(msgs1, mid + 1, msg("developer", <<"note">>))
                       ELSE msgs1,
        !.nextMessage = IF fb.developer_notes THEN mid + 2 ELSE mid + 1]

RECURSIVE migrateAll(_, _, _, _)
migrateAll(db, todo, mainProjectId, now) ==
  IF todo = {} THEN db
  ELSE LET f == CHOOSE x \in todo : \A y \in todo : x <= y
       IN migrateAll(migrateOne(db, db.feedback[f], mainProjectId, now),
                     todo \ {f}, mainProjectId, now)

\* variant: the migration runs whether or not the client exists
migrateFeedbackDataTx_NoGuard(db, name, now) ==
  LET db1 == [db EXCEPT !.clients = Insert(db.clients, db.nextClient, [name |-> name]),
                        !.nextClient = db.nextClient + 1]
      main == db1.nextProject
      db2 == createProjectTx(db1)
      db3 == migrateAll(db2, DOMAIN db2.feedback, main, now)
  IN createProjectTx(createProjectTx(db3))

\* migrateFeedbackData; name is args.client_name || "Cliente Principal"
migrateFeedbackDataTx(db, name, now) ==
  IF existingClient(db, name) # NoId THEN db
  ELSE LET db1 == [db EXCEPT !.clients = Insert(db.clients, db.nextClient, [name |-> name]),
                             !.nextClient = db.nextClient + 1]
           main == db1.nextProject
           db2 == createProjectTx(db1)
           db3 == migrateAll(db2, DOMAIN db2.feedback, main, now)
       IN createProjectTx(createProjectTx(db3))

\* success and client_id as migrateFeedbackData returns them
migrateFeedbackDataResult(db, name) ==
  IF existingClient(db, name) # NoId
    THEN [success |-> FALSE, client_id |-> existingClient(db, name)]
    ELSE [success |-> TRUE, client_id |-> db.nextClient]

migrateFeedbackData(client_name) ==
  \E now \in {clock, clock + 1} :
    /\ Now(now)
    /\ Commit(migrateFeedbackDataTx(Db, IF client_name = Undefined THEN MainClientName
                                                                  ELSE client_name, now))

\* ----------------------------------------------- mutations run concurrently
\* Convex runs a mutation optimistically: the handler reads from a snapshot,
\* its writes are buffered, and the commit goes through only if no document
\* it read has been written since; otherwise the handler is run again on a
\* fresh snapshot.  txn[s] is the call session s is running: the call, the
\* threads table of its snapshot, the number of runs so far, and whether it
\* has committed.  Session 0 records the creation of the thread.
Sessions == 1..MaxSessions

Calls ==
  [op : {"sendMessage"}, thread_id : 1..MaxThreads, role : Roles, is_private : BOOLEAN]
    \cup
  [op : {"markThreadAsRead"}, thread_id : 1..MaxThreads, role : Roles, is_private : {FALSE}]

Running(s) == s \in DOMAIN txn /\ txn[s].pc = "running"

begin(s, call) ==
  /\ s \notin DOMAIN txn
  /\ call.thread_id \in DOMAIN threads
  /\ txn' = Insert(txn, s, [call |-> call, snap |-> threads, runs |-> 1, pc |-> "running"])
  /\ UNCHANGED <<storeVars, seen>>

\* variant: the commit does not look at what was written since the snapshot
ReadSetValid_Always(s) ==
  TRUE

\* the thread the handler read is still as the snapshot showed it
ReadSetValid(s) ==
  threads[txn[s].call.thread_id] = txn[s].snap[txn[s].call.thread_id]

\* the handler of txn[s].call run on its snapshot; the documents it inserts
\* get their ids at commit, and its patch of the thread is applied to the
\* thread as it is in the store
commitTx(db, s, now, tg) ==
  LET call == txn[s].call
      t    == call.thread_id
      snapshot == [db EXCEPT !.threads = txn[s].snap]
  IN IF call.op = "sendMessage"
       THEN LET r == sendMessageTx(snapshot, t, call.role, call.is_private, now, tg)
            IN [r EXCEPT !.threads =
                  [db.threads EXCEPT
                     ![t].last_activity = r.threads[t].last_activity,
                     ![t].unread_count_client = r.threads[t].unread_count_client,
                     ![t].unread_count_developer = r.threads[t].unread_count_developer]]
       ELSE markThreadAsReadTx(db, t, call.role)

commit(s) ==
  \E tg \in {"sent", "failed"} :
    /\ Running(s)
    /\ ReadSetValid(s)
    /\ sendMessageOk(Db, txn[s].call.thread_id)
    /\ Commit(commitTx(Db, s, clock, tg))
    /\ txn' = [txn EXCEPT ![s].pc = "done"]
    /\ UNCHANGED <<clock, seen>>

retry(s) ==
  /\ Running(s)
  /\ ~ReadSetValid(s)
  /\ txn' = [txn EXCEPT ![s].snap = threads, ![s].runs = @ + 1]
  /\ UNCHANGED <<storeVars, seen>>

\* setupDefaultFolders run by concurrent callers.  The handler's query of
\* the project's folders is in its read set: a folder inserted for the
\* project since the snapshot makes the commit fail and the handler run
\* again.  txn[s].snap is the folders table of the snapshot and
\* txn[s].created the foldersCreated the call returned.
beginSetup(s, project_id) ==
  /\ s \notin DOMAIN txn
  /\ project_id \in DOMAIN projects
  /\ txn' = Insert(txn, s, [call |-> [op |-> "setupDefaultFolders", project_id |-> project_id],
                            snap |-> folders, runs |-> 1, pc |-> "running", created |-> 0])
  /\ UNCHANGED <<storeVars, seen>>

FolderReadSetValid(s) ==
  FoldersOf(folders, txn[s].call.project_id) = FoldersOf(txn[s].snap, txn[s].call.project_id)

\* the handler run on its snapshot; the folders it inserts get their ids at
\* commit and join the folders the store holds by then
commitSetupTx(db, s) ==
  LET r == setupDefaultFoldersTx([db EXCEPT !.folders = txn[s].snap], txn[s].call.project_id)
  IN [r EXCEPT !.folders = [f \in DOMAIN db.folders \cup DOMAIN r.folders |->
                              IF f \in DOMAIN db.folders THEN db.folders[f] ELSE r.folders[f]]]

commitSetup(s) ==
  /\ Running(s)
  /\ FolderReadSetValid(s)
  /\ Commit(commitSetupTx(Db, s))
  /\ txn' = [txn EXCEPT ![s].pc = "done", ![s].created = nextFolder' - nextFolder]
  /\ UNCHANGED <<clock, seen>>

retrySetup(s) ==
  /\ Running(s)
  /\ ~FolderReadSetValid(s)
  /\ txn' = [txn EXCEPT ![s].snap = folders, ![s].runs = @ + 1]
  /\ UNCHANGED <<storeVars, seen>>

\* ------------------------------------------------------------------- init
InitStore ==
  /\ projects = <<>>
  /\ threads = <<>>
  /\ messages = <<>>
  /\ notifications = <<>>
  /\ folders = <<>>
  /\ files = <<>>
  /\ clients = <<>>
  /\ feedback = <<>>
  /\ legacy_feedback = <<>>
  /\ nextProject = 1
  /\ nextThread = 1
  /\ nextMessage = 1
  /\ nextNotification = 1
  /\ nextFolder = 1
  /\ nextFile = 1
  /\ nextClient = 1
  /\ nextFeedback = 1
  /\ nextLegacy = 1
  /\ clock = 0

InitAux ==
  /\ seen = [r \in Roles |-> {}]
  /\ txn = <<>>

Init == InitStore /\ InitAux

\* ------------------------------------------------------------------ Spec
\* The unread bookkeeping of the threads of one project.  Time may stand
\* still between two mutations (new Date() has millisecond resolution).
Next ==
  \/ projects = <<>> /\ createProject /\ UNCHANGED auxVars
  \/ \E p \in DOMAIN projects, c \in Roles \cup {Undefined}, i \in BOOLEAN :
        /\ nextThread <= MaxThreads
        /\ i => nextMessage <= MaxMessages
        /\ createThread(p, c, i)
        /\ clock' <= MaxClock
        /\ UNCHANGED auxVars
  \/ \E t \in DOMAIN threads, a \in Roles, p \in BOOLEAN :
        /\ nextMessage <= MaxMessages
        /\ sendMessage(t, a, p)
        /\ clock' <= MaxClock
        /\ UNCHANGED auxVars
  \/ \E t \in DOMAIN threads :
        /\ nextMessage <= MaxMessages
        /\ addDeveloperNote(t)
        /\ clock' <= MaxClock
        /\ UNCHANGED auxVars
  \/ \E t \in DOMAIN threads, r \in Roles : markThreadAsRead(t, r) /\ UNCHANGED auxVars
  \/ \E t \in DOMAIN threads, a \in BOOLEAN :
        toggleThreadArchive(t, a) /\ clock' = clock /\ UNCHANGED auxVars

Spec == Init /\ [][Next]_vars

\* ---------------------------------------------------------- SpecHistory
\* Threads that start with both counters at 0 (created_by omitted), with
\* the record of what each role has read: a role has read a thread's
\* messages when it marks the thread read and when it sends into it.
NextHistory ==
  \/ projects = <<>> /\ createProject /\ UNCHANGED auxVars
  \/ \E p \in DOMAIN projects, i \in BOOLEAN :
        /\ nextThread <= MaxThreads
        /\ i => nextMessage <= HistoryMessages
        /\ createThread(p, Undefined, i)
        /\ clock' = clock
        /\ seen' = [seen EXCEPT !["client"] = @ \cup MessagesOf(messages', nextThread)]
        /\ UNCHANGED txn
  \/ \E t \in DOMAIN threads, a \in Roles, p \in BOOLEAN :
        /\ nextMessage <= HistoryMessages
        /\ sendMessage(t, a, p)
        /\ clock' = clock
        /\ seen' = [seen EXCEPT ![a] = @ \cup MessagesOf(messages', t)]
        /\ UNCHANGED txn
  \/ \E t \in DOMAIN threads, r \in Roles :
        /\ markThreadAsRead(t, r)
        /\ seen' = [seen EXCEPT ![r] = @ \cup MessagesOf(messages, t)]
        /\ UNCHANGED txn

SpecHistory == Init /\ [][NextHistory]_vars

\* ---------------------------------------------------------- SpecCascade
\* Several projects with their threads, messages and notifications, and
\* the two cascading deletes.  A caller can name every thread id the store
\* ever handed out, also the id of a thread deleted since.
NextCascade ==
  \/ nextProject <= MaxProjects /\ createProject /\ UNCHANGED auxVars
  \/ \E p \in DOMAIN projects, c \in Roles \cup {Undefined}, i \in BOOLEAN :
        /\ nextThread <= CascadeThreads
        /\ i => nextMessage <= CascadeMessages
        /\ createThread(p, c, i)
        /\ clock' = clock
        /\ UNCHANGED auxVars
  \/ \E t \in 1..CascadeThreads, a \in Roles, p \in BOOLEAN :
        /\ t < nextThread
        /\ nextMessage <= CascadeMessages
        /\ sendMessage(t, a, p)
        /\ clock' = clock
        /\ UNCHANGED auxVars
  \/ \E t \in DOMAIN threads : deleteThread(t) /\ UNCHANGED auxVars
  \/ \E p \in DOMAIN projects : deleteProject(p) /\ UNCHANGED auxVars

SpecCascade == Init /\ [][NextCascade]_vars

\* ----------------------------------------------------------------- claims
\* File organisation of one project holding one file at a time (the folder a
\* file is given does not depend on the other files); folders are the default
\* ones and custom ones, among them further folders called Other.  A custom
\* folder is created while at most MaxExtraFolders folders carry a custom name.
FolderNames == {"Other", "Misc"}

NextClassify ==
  \/ /\ projects = <<>>
     /\ createProject
     /\ UNCHANGED auxVars
  \/ \E p \in DOMAIN projects :
        /\ setupDefaultFolders(p)
        /\ UNCHANGED auxVars
  \/ \E p \in DOMAIN projects, name \in FolderNames :
        /\ Cardinality({f \in DOMAIN folders : folders[f].name \in FolderNames}) <= MaxExtraFolders
        /\ createFolder(p, name)
        /\ UNCHANGED auxVars
  \/ \E p \in DOMAIN projects, folder \in {NoId} \cup DOMAIN folders, ft \in FileTypes :
        /\ DOMAIN files = {}
        /\ nextFile <= MaxFiles
        /\ addFileToProject(p, folder, ft)
        /\ UNCHANGED auxVars
  \/ \E f \in DOMAIN files, folder \in {NoId} \cup DOMAIN folders :
        /\ moveFileToFolder(f, folder)
        /\ UNCHANGED auxVars
  \/ \E f \in DOMAIN files :
        /\ deleteFileFromProject(f)
        /\ UNCHANGED auxVars
  \/ \E p \in DOMAIN projects :
        /\ autoOrganizeFiles(p)
        /\ UNCHANGED auxVars
  \/ \E p \in DOMAIN projects :
        /\ autoOrganizeProjectFiles(p)
        /\ UNCHANGED auxVars

SpecClassify == Init /\ [][NextClassify]_vars

\* Calls of both roles racing on one thread that was created without an
\* initial message: each session runs one call.
NextTxn ==
  \/ /\ projects = <<>>
     /\ createProject
     /\ UNCHANGED auxVars
  \/ \E p \in DOMAIN projects, by \in Roles :
        /\ threads = <<>>
        /\ createThread(p, by, FALSE)
        /\ clock' = clock
        /\ txn' = Insert(txn, 0, [call |-> [op |-> "createThread", thread_id |-> nextThread,
                                            role |-> by, is_private |-> FALSE],
                                  snap |-> threads', runs |-> 1, pc |-> "done"])
        /\ UNCHANGED seen
  \/ \E s \in Sessions, call \in Calls : begin(s, call)
  \/ \E s \in Sessions : commit(s)
  \/ \E s \in Sessions : retry(s)

SpecTxn == Init /\ [][NextTxn]_vars

\* Callers racing to set the default folders of the projects up, next to
\* custom folders being created.
NextSetup ==
  \/ /\ nextProject <= MaxProjects
     /\ createProject
     /\ UNCHANGED auxVars
  \/ \E p \in DOMAIN projects :
        /\ Cardinality({f \in DOMAIN folders : folders[f].name = "Misc"}) < MaxExtraFolders
        /\ createFolder(p, "Misc")
        /\ UNCHANGED auxVars
  \/ \E s \in Sessions, p \in DOMAIN projects : beginSetup(s, p)
  \/ \E s \in Sessions : commitSetup(s)
  \/ \E s \in Sessions : retrySetup(s)

SpecSetup == Init /\ [][NextSetup]_vars

\* Files arriving in messages of one project: file messages, a message of
\* type file that carries no file, project files deleted again, custom
\* folders, sync runs and the composite set-up.
SyncTypes == {<<"image/", "x">>, <<"x">>}

NextSync ==
  \/ /\ projects = <<>>
     /\ createProject
     /\ UNCHANGED auxVars
  \/ \E p \in DOMAIN projects :
        /\ nextThread <= MaxThreads
        /\ createThread(p, Undefined, FALSE)
        /\ clock' = clock
        /\ UNCHANGED auxVars
  \/ \E p \in DOMAIN projects :
        /\ Cardinality({f \in DOMAIN folders : folders[f].name = "Misc"}) < MaxExtraFolders
        /\ createFolder(p, "Misc")
        /\ UNCHANGED auxVars
  \/ \E t \in DOMAIN threads, a \in Roles, ft \in SyncTypes :
        /\ nextMessage <= SyncMessages
        /\ nextFile <= SyncFiles
        /\ sendFileMessage(t, a, 1, ft)
        /\ clock' = clock
        /\ UNCHANGED auxVars
  \/ \E t \in DOMAIN threads :
        /\ nextMessage <= SyncMessages
        /\ sendMessageArgs([thread_id |-> t, author |-> "developer", is_private |-> FALSE,
                            message_type |-> "file", content |-> <<"hello">>,
                            translation_enabled |-> Absent])
        /\ clock' = clock
        /\ UNCHANGED auxVars
  \/ \E f \in DOMAIN files :
        /\ deleteFileFromProject(f)
        /\ UNCHANGED auxVars
  \/ \E p \in DOMAIN projects :
        /\ nextFile <= SyncFiles
        /\ syncMessageFilesToProject(p)
        /\ UNCHANGED auxVars
  \/ \E p \in DOMAIN projects :
        /\ nextFile <= SyncFiles
        /\ setupProjectFileSystem(p)
        /\ UNCHANGED auxVars

SpecSync == Init /\ [][NextSync]_vars

\* Messages typed into the thread view, translated on the way out.
NextTranslate ==
  \/ /\ projects = <<>>
     /\ createProject
     /\ UNCHANGED auxVars
  \/ \E p \in DOMAIN projects :
        /\ threads = <<>>
        /\ createThread(p, Undefined, FALSE)
        /\ clock' = clock
        /\ UNCHANGED auxVars
  \/ \E t \in DOMAIN threads, r \in Roles, text \in Texts, mm \in Answers, lt \in Answers :
        /\ nextMessage <= TranslateMessages
        /\ handleSendMessage(t, r, text, mm, lt)
        /\ clock' = clock
        /\ UNCHANGED auxVars

SpecTranslate == Init /\ [][NextTranslate]_vars

\* Feedback being submitted and answered, clients being created, and the
\* migration invoked again and again for the main client.
NextMigrate ==
  \/ \E subject \in {"a", "b"} :
        /\ nextFeedback <= MaxFeedback
        /\ createFeedback(subject)
        /\ UNCHANGED auxVars
  \/ \E id \in DOMAIN feedback :
        /\ updateStatus(id, "completed", TRUE)
        /\ UNCHANGED auxVars
  \/ \E name \in {MainClientName, "Otro"} :
        /\ nextClient <= MaxClients
        /\ createClient(name)
        /\ UNCHANGED auxVars
  \/ \E client_name \in {Undefined, MainClientName} :
        /\ migrateFeedbackData(client_name)
        /\ clock' = clock
        /\ UNCHANGED auxVars

SpecMigrate == Init /\ [][NextMigrate]_vars

\* Messages of both roles in one thread, edited and deleted by either role.
NewContents == {<<"edited">>, <<"again">>}

NextEdit ==
  \/ projects = <<>> /\ createProject /\ UNCHANGED auxVars
  \/ \E p \in DOMAIN projects :
        /\ threads = <<>>
        /\ createThread(p, Undefined, FALSE)
        /\ clock' = clock
        /\ UNCHANGED auxVars
  \/ \E t \in DOMAIN threads, a \in Roles :
        /\ nextMessage <= EditMessages
        /\ sendMessage(t, a, FALSE)
        /\ clock' = clock
        /\ UNCHANGED auxVars
  \/ \E m \in DOMAIN messages, c \in NewContents, e \in Roles :
        /\ editMessage(m, c, e)
        /\ clock' <= MaxClock
        /\ UNCHANGED auxVars
  \/ \E m \in DOMAIN messages, d \in Roles :
        /\ deleteMessage(m, d)
        /\ clock' <= MaxClock
        /\ UNCHANGED auxVars

SpecEdit == Init /\ [][NextEdit]_vars

\* One thread whose status both roles change, between sends and reads.
NextStatus ==
  \/ projects = <<>> /\ createProject /\ UNCHANGED auxVars
  \/ \E p \in DOMAIN projects, c \in Roles :
        /\ threads = <<>>
        /\ createThread(p, c, FALSE)
        /\ clock' = clock
        /\ UNCHANGED auxVars
  \/ \E t \in DOMAIN threads, a \in Roles :
        /\ nextMessage <= StatusMessages
        /\ sendMessage(t, a, FALSE)
        /\ clock' = clock
        /\ UNCHANGED auxVars
  \/ \E t \in DOMAIN threads, s \in {"in_progress", "resolved"}, by \in Roles, n \in BOOLEAN :
        /\ nextMessage <= StatusMessages
        /\ updateThreadStatus(t, s, by, n)
        /\ clock' <= MaxClock
        /\ UNCHANGED auxVars
  \/ \E t \in DOMAIN threads, r \in Roles : markThreadAsRead(t, r) /\ UNCHANGED auxVars

SpecStatus == Init /\ [][NextStatus]_vars

\* Projects that get their folders and files and are deleted again.
NextProjectDelete ==
  \/ nextProject <= MaxProjects /\ createProject /\ UNCHANGED auxVars
  \/ \E p \in DOMAIN projects :
        /\ setupDefaultFolders(p)
        /\ UNCHANGED auxVars
  \/ \E p \in DOMAIN projects, ft \in SyncTypes :
        /\ nextFile <= MaxFiles
        /\ addFileToProject(p, NoId, ft)
        /\ UNCHANGED auxVars
  \/ \E f \in DOMAIN files, folder \in {NoId} \cup DOMAIN folders :
        /\ moveFileToFolder(f, folder)
        /\ UNCHANGED auxVars
  \/ \E p \in DOMAIN projects : deleteProject(p) /\ UNCHANGED auxVars

SpecProjectDelete == Init /\ [][NextProjectDelete]_vars

\* A project whose status the developer updates, with and without a note,
\* before and after it has threads.
NextProjectStatus ==
  \/ projects = <<>> /\ createProject /\ UNCHANGED auxVars
  \/ \E p \in DOMAIN projects, c \in Roles :
        /\ nextThread <= MaxThreads
        /\ createThread(p, c, FALSE)
        /\ clock' = clock
        /\ UNCHANGED auxVars
  \/ \E t \in DOMAIN threads, a \in Roles :
        /\ nextMessage <= StatusMessages
        /\ sendMessage(t, a, FALSE)
        /\ clock' = clock
        /\ UNCHANGED auxVars
  \/ \E p \in DOMAIN projects, n \in BOOLEAN :
        /\ nextMessage <= StatusMessages
        /\ nextThread <= MaxThreads + 1
        /\ updateProjectStatus(p, n)
        /\ clock' <= MaxClock
        /\ UNCHANGED auxVars
  \/ \E t \in DOMAIN threads : deleteThread(t) /\ UNCHANGED auxVars

SpecProjectStatus == Init /\ [][NextProjectStatus]_vars

Opposite(role) == IF role = "client" THEN "developer" ELSE "client"

Unread(thread, role) ==
  IF role = "client" THEN thread.unread_count_client ELSE thread.unread_count_developer

\* C1: a non-private sendMessage raises the unread counter of the role
\* opposite to the author by exactly 1, sets the author's own counter to 0
\* whatever it was, and sets last_activity to the time of the send.
C1_SendCounters ==
  [][\A t \in DOMAIN threads, a \in Roles :
       (nextMessage' # nextMessage /\ sendMessage(t, a, FALSE)) =>
         /\ Unread(threads'[t], Opposite(a)) = Unread(threads[t], Opposite(a)) + 1
         /\ Unread(threads'[t], a) = 0
         /\ threads'[t].last_activity = clock']_vars

\* the client wrote, then the developer answered at a later time: the
\* developer's counter was reset from 1 and the client's counter went to 1
C1_Witness ==
  \E t \in DOMAIN threads :
    /\ threads[t].unread_count_client = 1
    /\ threads[t].unread_count_developer = 0
    /\ threads[t].last_activity = MaxClock
    /\ \E m1, m2 \in MessagesOf(messages, t) :
         /\ m1 < m2
         /\ messages[m1].author = "client" /\ ~messages[m1].is_private
         /\ messages[m2].author = "developer" /\ ~messages[m2].is_private

\* C2: a private message, by either role and through sendMessage or
\* addDeveloperNote, never increments an unread counter of its thread.
C2_PrivateNeverIncrements ==
  [][\A t \in DOMAIN threads, a \in Roles :
       (sendMessage(t, a, TRUE) \/ addDeveloperNote(t)) =>
         /\ threads'[t].unread_count_client <= threads[t].unread_count_client
         /\ threads'[t].unread_count_developer <= threads[t].unread_count_developer]_vars

\* C3: on a thread that starts with both counters at 0, after any sequence
\* of sendMessage and markThreadAsRead calls each role's counter is the
\* number of non-private messages of the other role that this role has not
\* read (never negative, no message counted twice).
C3_CountersMatchUnread ==
  \A t \in DOMAIN threads, r \in Roles :
    Unread(threads[t], r)
      = Cardinality({m \in MessagesOf(messages, t) :
                       /\ ~messages[m].is_private
                       /\ messages[m].author = Opposite(r)
                       /\ m \notin seen[r]})

\* C4: when createThread has completed, the creator's counter is 0 and the
\* other role's counter is 1 if an initial message was supplied, else 0
\* (created_by omitted defaults to the client).
C4_CreateThreadCounters ==
  [][\A p \in DOMAIN projects, c \in Roles \cup {Undefined}, i \in BOOLEAN :
       createThread(p, c, i) =>
         LET creator == IF c = Undefined THEN "client" ELSE c
             row == threads'[nextThread]
         IN /\ Unread(row, creator) = 0
            /\ Unread(row, Opposite(creator)) = IF i THEN 1 ELSE 0]_vars

\* C5: getTotalUnreadCount(viewer) is the sum of the viewer's counter over
\* all threads that are not archived, a thread that was created and never
\* archived counting as not archived.
C5_TotalOverNonArchived ==
  \A viewer \in Roles :
    getTotalUnreadCount(viewer)
      = SumUnread(threads, {t \in DOMAIN threads : threads[t].is_archived # Some(TRUE)}, viewer)

\* C6: markThreadAsRead sets the reader's counter to 0 whatever it was,
\* leaves the other role's counter unchanged, applied again changes
\* nothing, and the thread then adds 0 to getTotalUnreadCount(reader).
C6_MarkThreadAsRead ==
  [][\A t \in DOMAIN threads, r \in Roles :
       markThreadAsRead(t, r) =>
         /\ Unread(threads'[t], r) = 0
         /\ Unread(threads'[t], Opposite(r)) = Unread(threads[t], Opposite(r))
         /\ markThreadAsReadTx(markThreadAsReadTx(Db, t, r), t, r) = markThreadAsReadTx(Db, t, r)
         /\ getTotalUnreadCountOn(threads', r)
              = getTotalUnreadCountOn(Remove(threads', {t}), r)]_vars

\* the last message of a counted (is_archived = false) thread is a public
\* message of the client, and the developer has no unread message: the
\* developer marked the thread read after it
C6_Witness ==
  \E t \in DOMAIN threads :
    /\ threads[t].is_archived = Some(FALSE)
    /\ threads[t].unread_count_developer = 0
    /\ \E m \in MessagesOf(messages, t) :
         /\ messages[m].author = "client" /\ ~messages[m].is_private
         /\ \A m2 \in MessagesOf(messages, t) : m2 <= m

\* C7: deleteThread is all-or-nothing: after it neither the thread nor any
\* of its messages exists, and no step of any operation leaves a state in
\* which some messages of an existing thread are gone while the thread or
\* others of its messages remain.
C7_DeleteThreadAtomic ==
  [][\A t \in DOMAIN threads :
       LET gone == MessagesOf(messages, t) \ DOMAIN messages'
       IN (deleteThread(t) \/ gone # {}) =>
            /\ t \notin DOMAIN threads'
            /\ MessagesOf(messages', t) = {}]_vars

\* no project was deleted, one thread was created, it received all the
\* messages there are room for, and thread and messages are gone together
C7_Witness ==
  /\ Cardinality(DOMAIN projects) = nextProject - 1
  /\ nextThread = 2
  /\ nextMessage > CascadeMessages
  /\ threads = <<>>
  /\ messages = <<>>

\* C8: after deleteProject(p) the project does not exist, no thread has
\* project_id = p, no message belongs to a thread that belonged to p, and
\* no notification references p or a thread that belonged to p.
C8_DeleteProjectCascade ==
  [][\A p \in DOMAIN projects :
       deleteProject(p) =>
         LET ths == ThreadsOf(Db, p)
         IN /\ p \notin DOMAIN projects'
            /\ \A t \in DOMAIN threads' : threads'[t].project_id # p
            /\ \A m \in DOMAIN messages' : messages'[m].thread_id \notin ths
            /\ \A n \in DOMAIN notifications' :
                 /\ notifications'[n].project_id # p
                 /\ notifications'[n].thread_id \notin ths]_vars

\* a project is gone together with the thread, the message and the
\* notification it had, and another project is still there
C8_Witness ==
  /\ projects # <<>>
  /\ Cardinality(DOMAIN projects) < nextProject - 1
  /\ nextThread > 1 /\ nextMessage > 1 /\ nextNotification > 1
  /\ threads = <<>>
  /\ messages = <<>>
  /\ notifications = <<>>
\* the calls that have committed
Done == {s \in DOMAIN txn \ {0} : txn[s].pc = "done"}

\* one call applied to a thread row, as the handler run alone applies it
ApplyCall(thread, call) ==
  IF call.op = "sendMessage"
    THEN [thread EXCEPT
            !.unread_count_client = newUnreadClient(thread, call.role, call.is_private),
            !.unread_count_developer = newUnreadDeveloper(thread, call.role, call.is_private)]
    ELSE markThreadAsReadPatch(thread, call.role)

RECURSIVE ApplyInOrder(_, _)
ApplyInOrder(thread, order) ==
  IF order = <<>> THEN thread
  ELSE ApplyInOrder(ApplyCall(thread, txn[Head(order)].call), Tail(order))

Orders(S) ==
  {o \in [1..Cardinality(S) -> S] : \A i, j \in DOMAIN o : o[i] = o[j] => i = j}

\* C9: whatever the interleaving of sendMessage and markThreadAsRead calls on
\* a thread, its counters are those some sequential order of the committed
\* calls leaves, every committed send has its message, and when the committed
\* calls are all non-private client sends unread_count_developer has grown by
\* their number.
C9_Linearizable ==
  \A t \in DOMAIN threads :
    0 \in DOMAIN txn =>
      LET base == txn[0].snap[t]
      IN /\ \E o \in Orders(Done) :
              /\ threads[t].unread_count_client = ApplyInOrder(base, o).unread_count_client
              /\ threads[t].unread_count_developer = ApplyInOrder(base, o).unread_count_developer
         /\ Cardinality(MessagesOf(messages, t))
              = Cardinality({s \in Done : txn[s].call.op = "sendMessage"})
         /\ (\A s \in Done : /\ txn[s].call.op = "sendMessage"
                             /\ txn[s].call.role = "client"
                             /\ ~txn[s].call.is_private)
              => threads[t].unread_count_developer
                   = base.unread_count_developer + Cardinality(Done)

\* two non-private client sends have committed, one of them after a second
\* run because the other committed in between, and unread_count_developer
\* is 2 above what it was
C9_Witness ==
  /\ 0 \in DOMAIN txn
  /\ Done = {1, 2}
  /\ \A s \in Done : /\ txn[s].call.op = "sendMessage"
                     /\ txn[s].call.role = "client"
                     /\ ~txn[s].call.is_private
  /\ \E s \in Done : txn[s].runs = 2
  /\ \A t \in DOMAIN threads :
       threads[t].unread_count_developer = txn[0].snap[t].unread_count_developer + 2

\* the bucket the taxonomy gives a file type
Bucket(ft) ==
  IF StartsWith(ft, <<"image/">>) THEN "Images"
  ELSE IF ft = <<"application/", "pdf">> THEN "PDFs"
  ELSE IF \E w \in {"document", "text", "word", "excel", "powerpoint"} : Includes(ft, <<w>>)
    THEN "Documents"
  ELSE "Other"

HasDefaults(fs, p) ==
  \A i \in DOMAIN DefaultFolders : \E f \in FoldersOf(fs, p) : fs[f].name = DefaultFolders[i]

FolderName(fs, id) == IF id \in DOMAIN fs THEN fs[id].name ELSE "none"

\* C10: with the four default folders present, a file of any type that is
\* filed automatically (added without a folder, or picked up by either
\* auto-organise mutation) lands in the one folder its type's bucket names:
\* Images if the type starts with image/, else PDFs if it is application/pdf,
\* else Documents if it contains document, text, word, excel or powerpoint,
\* else Other.
C10_ClassifyBuckets ==
  [][\A p \in DOMAIN projects :
       /\ (/\ nextFile' # nextFile
           /\ HasDefaults(folders', p)
           /\ addFileToProject(p, NoId, files'[nextFile].file_type))
          => FolderName(folders', files'[nextFile].folder_id)
               = Bucket(files'[nextFile].file_type)
       /\ (/\ files' # files
           /\ HasDefaults(folders, p)
           /\ autoOrganizeProjectFiles(p))
          => \A f \in unorganizedFiles(files, p) :
               FolderName(folders, files'[f].folder_id) = Bucket(files[f].file_type)
       /\ (/\ files' # files
           /\ HasDefaults(folders', p)
           /\ autoOrganizeFiles(p))
          => \A f \in unorganizedFiles(files, p) :
               FolderName(folders', files'[f].folder_id) = Bucket(files[f].file_type)
    ]_vars

\* a file whose type mentions image/ and text but starts with neither sits
\* in Documents of a project that has the four default folders
C10_Witness ==
  \E f \in DOMAIN files :
    /\ HasDefaults(folders, files[f].project_id)
    /\ files[f].file_type = <<"text", "image/">>
    /\ FolderName(folders, files[f].folder_id) = "Documents"

\* C11: setupDefaultFolders creates the four folders Images, Documents, PDFs
\* and Other on a project that has no folder and nothing (zero reported) on
\* a project that has one; whatever the interleaving of the callers, a
\* project holds each default folder at most once, all four or none, and at
\* most one call per project reports folders created.
C11_SetupIdempotent ==
  /\ \A p \in DOMAIN projects :
       /\ \A i \in DOMAIN DefaultFolders :
            Cardinality({f \in FoldersOf(folders, p) : folders[f].name = DefaultFolders[i]}) <= 1
       /\ (\E f \in FoldersOf(folders, p) : folders[f].name # "Misc") => HasDefaults(folders, p)
       /\ Cardinality({s \in Done : txn[s].call.project_id = p /\ txn[s].created # 0}) <= 1
       /\ (\E s \in Done : txn[s].call.project_id = p) => FoldersOf(folders, p) # {}
  /\ \A s \in Done :
       /\ txn[s].created \in {0, 4}
       /\ txn[s].created = 4 =>
            /\ HasDefaults(folders, txn[s].call.project_id)
            /\ FoldersOf(txn[s].snap, txn[s].call.project_id) = {}
       /\ FoldersOf(txn[s].snap, txn[s].call.project_id) # {} => txn[s].created = 0

\* two callers raced on a project without folders: one created the four
\* folders, the other ran again and reports zero
C11_Witness ==
  \E p \in DOMAIN projects, s1, s2 \in Done :
    /\ txn[s1].call.project_id = p /\ txn[s2].call.project_id = p
    /\ txn[s1].created = 4
    /\ txn[s2].created = 0 /\ txn[s2].runs = 2
    /\ Cardinality(FoldersOf(folders, p)) = 4

\* C12: addFileToProject without a folder on a project that has no folder
\* creates the four default folders and stores the file in the folder its
\* type's bucket names; a file added without a folder is never stored
\* without one.
C12_AddFileLazySetup ==
  [][\A p \in DOMAIN projects :
       (nextFile' # nextFile /\ addFileToProject(p, NoId, files'[nextFile].file_type))
         => /\ files'[nextFile].folder_id \in FoldersOf(folders', p)
            /\ FoldersOf(folders, p) = {} =>
                 /\ Cardinality(FoldersOf(folders', p)) = 4
                 /\ HasDefaults(folders', p)
                 /\ FolderName(folders', files'[nextFile].folder_id)
                      = Bucket(files'[nextFile].file_type)
    ]_vars

\* an image file sits in Images of a project whose only folders are the four
\* default ones
C12_Witness ==
  \E f \in DOMAIN files :
    /\ Cardinality(FoldersOf(folders, files[f].project_id)) = 4
    /\ HasDefaults(folders, files[f].project_id)
    /\ files[f].file_type = <<"image/", "x">>
    /\ FolderName(folders, files[f].folder_id) = "Images"

\* the files of a project that have a folder are the same rows in both stores
FolderedUntouched(db, d1, p) ==
  \A f \in DOMAIN db.files :
    (db.files[f].project_id = p /\ db.files[f].folder_id # NoId) => d1.files[f] = db.files[f]

\* C13: in every state of a project, with or without the default folders,
\* either auto-organise mutation leaves the files that have a folder
\* untouched, and run again right after itself it organizes zero files and
\* changes nothing.
C13_AutoOrganizeIdempotent ==
  \A p \in DOMAIN projects :
    /\ LET d1 == autoOrganizeFilesTx(Db, p)
       IN /\ FolderedUntouched(Db, d1, p)
          /\ autoOrganizeFilesCount(d1, p) = 0
          /\ autoOrganizeFilesTx(d1, p) = d1
    /\ LET d1 == autoOrganizeProjectFilesTx(Db, p)
       IN /\ FolderedUntouched(Db, d1, p)
          /\ autoOrganizeProjectFilesCount(d1, p) = 0
          /\ autoOrganizeProjectFilesTx(d1, p) = d1

\* the project files that came from message m
FilesOfMessage(fl, m) == {f \in DOMAIN fl : fl[f].message_id = m}

\* C14: after any sequence of file-message sends and sync runs a message
\* that carries a file has at most one project file referring to it; a sync
\* run keeps that so, gives the files it creates no folder, and run again
\* right after itself creates no project file.
C14_SyncIdempotent ==
  /\ \A m \in DOMAIN messages : Cardinality(FilesOfMessage(files, m)) <= 1
  /\ \A p \in DOMAIN projects :
       LET d1 == syncMessageFilesToProjectTx(Db, p)
       IN /\ \A m \in DOMAIN messages : Cardinality(FilesOfMessage(d1.files, m)) <= 1
          /\ \A f \in DOMAIN d1.files \ DOMAIN files :
               /\ d1.files[f].folder_id = NoId
               /\ d1.files[f].message_id \in DOMAIN messages
          /\ \A f \in DOMAIN files : d1.files[f] = files[f]
          /\ syncedCount(d1, p) = 0
          /\ syncMessageFilesToProjectTx(d1, p) = d1

\* a sync run has re-created the project file of a file message: the file
\* has no folder and is not the one the send created
C14_Witness ==
  \E f \in DOMAIN files :
    /\ files[f].message_id \in DOMAIN messages
    /\ files[f].folder_id = NoId
    /\ f > 1
    /\ Cardinality(FilesOfMessage(files, files[f].message_id)) = 1

\* C15: setupProjectFileSystem sets the default folders up, syncs and then
\* organizes, so the files its sync step creates have a folder when the call
\* returns; called again right after itself it reports 0 folders created, 0
\* files synced and 0 files organized and leaves the store as it is,
\* whatever folders the project had before.
C15_SetupFileSystem ==
  \A p \in DOMAIN projects :
    LET d1 == setupProjectFileSystemTx(Db, p)
    IN /\ \A f \in DOMAIN d1.files \ DOMAIN files : d1.files[f].folder_id # NoId
       /\ setupProjectFileSystemResult(d1, p)
            = [foldersCreated |-> 0, filesSynced |-> 0, filesOrganized |-> 0]
       /\ setupProjectFileSystemTx(d1, p) = d1

\* C16: when both translation services fail for an outgoing message that
\* needs translating, the message is still stored, with the original text as
\* its content and translation_enabled false.
C16_TranslationFailureDegrades ==
  [][\A t \in DOMAIN threads, r \in Roles, text \in Texts, mm \in Answers, lt \in Answers :
       (/\ nextMessage' # nextMessage
        /\ Failed(mm) /\ Failed(lt)
        /\ finalDetectedLang(r, text) # getTargetLanguage(r)
        /\ handleSendMessage(t, r, text, mm, lt))
         => /\ nextMessage \in DOMAIN messages'
            /\ messages'[nextMessage].content = text
            /\ messages'[nextMessage].translation_enabled = Some(FALSE)
    ]_vars

\* C17: whenever a message is sent and translateText is called for it, with
\* any non-empty text and any answers of the two services, the result has
\* success = true and a translatedText that is not empty.
C17_TranslateNeverEmpty ==
  [][\A t \in DOMAIN threads, r \in Roles, text \in Texts, mm \in Answers, lt \in Answers :
       (/\ nextMessage' # nextMessage
        /\ finalDetectedLang(r, text) # getTargetLanguage(r)
        /\ handleSendMessage(t, r, text, mm, lt))
         => LET result == translateText(text, getTargetLanguage(r),
                                        finalDetectedLang(r, text), mm, lt)
            IN result.success /\ result.translatedText # <<>>
    ]_vars

\* C18: a migrateFeedbackData call made when a client of the target name
\* exists creates no client, project, thread, message or legacy record and
\* returns that client's id; so however often it is called there is one
\* thread per legacy record and at most one legacy record per feedback
\* record.
C18_MigrationRepeatable ==
  [][/\ Cardinality(DOMAIN threads') = Cardinality(DOMAIN legacy_feedback')
     /\ Cardinality(DOMAIN legacy_feedback') <= Cardinality(DOMAIN feedback')
     /\ \A l \in DOMAIN legacy_feedback' :
          legacy_feedback'[l].migrated_to_thread \in {NoId} \cup DOMAIN threads'
     /\ \A client_name \in {Undefined, MainClientName} :
          (existingClient(Db, MainClientName) # NoId /\ migrateFeedbackData(client_name))
            => /\ UNCHANGED <<clients, projects, threads, messages, legacy_feedback,
                              nextClient, nextProject, nextThread, nextMessage, nextLegacy>>
               /\ migrateFeedbackDataResult(Db, MainClientName)
                    = [success |-> FALSE, client_id |-> existingClient(Db, MainClientName)]
    ]_vars

\* the migration has run over two feedback records: two legacy records, two
\* threads and the three projects of one run
C18_Witness ==
  /\ Cardinality(DOMAIN feedback) = 2
  /\ Cardinality(DOMAIN legacy_feedback) = 2
  /\ Cardinality(DOMAIN threads) = 2
  /\ Cardinality(DOMAIN projects) = 3
  /\ existingClient(Db, MainClientName) # NoId

\* C19: no query made for the client view returns a private message:
\* getThreadMessages with include_private false or omitted, getProjectThreads
\* with viewer client (last_message included), searchMessages without
\* include_private.
C19_PrivateInvisible ==
  /\ \A t \in DOMAIN threads, inc \in {Absent, Some(FALSE)}, limit \in 0..MaxMessages :
       LET r == getThreadMessages(messages, t, inc, limit)
       IN \A i \in 1..Len(r) : ~messages[r[i]].is_private
  /\ \A p \in DOMAIN projects :
       \A d \in getProjectThreads(Db, p, "client") :
          d.last_message # NoId => ~messages[d.last_message].is_private
  /\ \A q \in {<<>>, <<"note">>, <<"NOTE">>, <<"hello">>},
        t \in {NoId} \cup DOMAIN threads, p \in {NoId} \cup DOMAIN projects,
        limit \in 0..MaxMessages :
       \A m \in searchMessages(Db, q, t, p, Absent, limit) : ~messages[m].is_private

\* C20: editMessage by a role that is not the message's author raises an
\* error and changes nothing (content, is_edited, edited_at and the thread's
\* last_activity included); an edit that changes a message's content or
\* is_edited is its author's, and it sets the new content and is_edited.
C20_EditOwnOnly ==
  \A m \in DOMAIN messages, c \in NewContents, e \in Roles, now \in {clock, clock + 1} :
    LET r == editMessageTx(Db, m, c, e, now)
    IN /\ e # messages[m].author => r.result = Error /\ r.db = Db
       /\ r.db.messages # messages
            => /\ e = messages[m].author
               /\ r.result = m
               /\ r.db.messages = [messages EXCEPT ![m].content = c,
                                                   ![m].is_edited = TRUE,
                                                   ![m].edited_at = now]
       /\ e = messages[m].author /\ messages[m].thread_id \in DOMAIN threads
            => r.db.messages[m].content = c /\ r.db.messages[m].is_edited

\* the client's message has been edited by the client and the developer's
\* message next to it has not been touched
C20_Witness ==
  \E m, k \in DOMAIN messages :
    /\ messages[m].author = "client"
    /\ messages[m].content \in NewContents
    /\ messages[m].is_edited
    /\ messages[m].edited_at # NoTime
    /\ messages[k].author = "developer"
    /\ ~messages[k].is_edited
    /\ messages[k].content = <<"hello">>

\* C21: a private message of the developer, sent through sendMessage with
\* is_private or through addDeveloperNote, leaves both unread counters of the
\* thread as they were.
C21_PrivateNoteKeepsCounters ==
  [][\A t \in DOMAIN threads :
       (nextMessage' # nextMessage
          /\ (sendMessage(t, "developer", TRUE) \/ addDeveloperNote(t))) =>
         /\ threads'[t].unread_count_client = threads[t].unread_count_client
         /\ threads'[t].unread_count_developer = threads[t].unread_count_developer]_vars

\* C22: updateThreadStatus sets the thread's status, appends exactly one
\* non-private status message of the updater, raises the other role's
\* counter by 1, sets the updater's own counter to 0 and sets last_activity,
\* whatever the thread's state was.
C22_UpdateThreadStatus ==
  [][\A t \in DOMAIN threads, s \in Statuses, by \in Roles, n \in BOOLEAN :
       (nextMessage' # nextMessage /\ updateThreadStatus(t, s, by, n)) =>
         /\ threads'[t].status = s
         /\ threads'[t].last_activity = clock'
         /\ Unread(threads'[t], Opposite(by)) = Unread(threads[t], Opposite(by)) + 1
         /\ Unread(threads'[t], by) = 0
         /\ DOMAIN messages' = DOMAIN messages \cup {nextMessage}
         /\ nextMessage \notin DOMAIN messages
         /\ \A m \in DOMAIN messages : messages'[m] = messages[m]
         /\ messages'[nextMessage].thread_id = t
         /\ messages'[nextMessage].author = by
         /\ messages'[nextMessage].message_type = "status_update"
         /\ ~messages'[nextMessage].is_private]_vars

\* the developer resolved a thread on which both counters were raised
\* before: the client's counter went to 2 and the developer's own to 0
C22_Witness ==
  \E t \in DOMAIN threads :
    /\ threads[t].status = "resolved"
    /\ threads[t].unread_count_client = 2
    /\ threads[t].unread_count_developer = 0
    /\ \E m \in MessagesOf(messages, t) :
         /\ messages[m].message_type = "status_update"
         /\ messages[m].author = "developer"
         /\ \E k \in MessagesOf(messages, t) : k < m /\ messages[k].author = "client"

\* C23: moveFileToFolder without a folder leaves the file with no folder,
\* as a file that was never organized, and moveFileToFolder with a folder
\* sets that folder whatever the previous one; an autoOrganizeFiles run gives
\* every file without a folder a folder again, the one its type's bucket
\* names when the project has the default folders.
C23_RootFilesReclassified ==
  [][/\ \A f \in DOMAIN files, folder \in {NoId} \cup DOMAIN folders :
          moveFileToFolderTx(Db, f, folder)
            = [Db EXCEPT !.files = [files EXCEPT ![f].folder_id = folder]]
     /\ \A p \in DOMAIN projects :
          (files' # files /\ autoOrganizeFiles(p)) =>
             \A f \in unorganizedFiles(files, p) :
                /\ files'[f].folder_id \in FoldersOf(folders', p)
                /\ HasDefaults(folders', p)
                     => FolderName(folders', files'[f].folder_id) = Bucket(files[f].file_type)
    ]_vars

\* a pdf that was moved out of its folder to the project root, in a project
\* that has the default folders
C23_Witness ==
  \E f \in DOMAIN files :
    /\ files[f].folder_id = NoId
    /\ files[f].file_type = <<"application/", "pdf">>
    /\ HasDefaults(folders, files[f].project_id)

\* C24: the translation of a text is the text itself when source and target
\* language are equal; else the primary service's text when the primary
\* answered; else the secondary service's when the secondary answered; else
\* what the phrase dictionary gives (hola for hello from en to es), the
\* tagged note only when no phrase matches.
C24_FallbackChain ==
  [][\A t \in DOMAIN threads, r \in Roles, text \in Texts, mm \in Answers, lt \in Answers :
       (nextMessage' # nextMessage /\ handleSendMessage(t, r, text, mm, lt)) =>
          LET source == finalDetectedLang(r, text)
              target == getTargetLanguage(r)
          IN translateText(text, target, source, mm, lt).translatedText
               = IF source = target THEN text
                 ELSE IF mm.kind = "json" /\ mm.responseStatus = 200 /\ mm.hasData
                   THEN mm.translatedText
                 ELSE IF lt.kind = "json"
                   THEN (IF lt.translatedText # <<>> THEN lt.translatedText ELSE text)
                 ELSE fallbackPhraseTranslate(text, target, source).translatedText
    ]_vars

\* C25: a migrateFeedbackData run that migrates leaves, for every feedback
\* record, one new legacy row and one new thread, and the row of the k-th
\* record refers in migrated_to_thread to the thread made from the k-th
\* record, also when records share a subject.
C25_MigrationLinksEachRecord ==
  [][\A client_name \in {Undefined, MainClientName} :
       (nextClient' # nextClient /\ migrateFeedbackData(client_name)) =>
          LET n == Cardinality(DOMAIN feedback)
          IN /\ DOMAIN legacy_feedback' = DOMAIN legacy_feedback \cup (nextLegacy..(nextLegacy + n - 1))
             /\ DOMAIN threads' = DOMAIN threads \cup (nextThread..(nextThread + n - 1))
             /\ \A k \in 0..(n - 1) :
                  legacy_feedback'[nextLegacy + k].migrated_to_thread = nextThread + k
    ]_vars

\* C26: a non-private sendMessage of the client adds exactly one
\* notification record, for the message's thread and ending as sent or
\* failed, and the message is stored whichever of the two it is; a send of
\* the developer or a private send adds no notification record.
C26_ClientSendNotifies ==
  [][\A t \in 1..CascadeThreads, a \in Roles, p \in BOOLEAN :
       (nextMessage' # nextMessage /\ sendMessage(t, a, p)) =>
          /\ nextMessage \in DOMAIN messages'
          /\ \A n \in DOMAIN notifications : n \in DOMAIN notifications'
          /\ IF a = "client" /\ ~p
               THEN /\ DOMAIN notifications' = DOMAIN notifications \cup {nextNotification}
                    /\ nextNotification \notin DOMAIN notifications
                    /\ notifications'[nextNotification].thread_id = t
                    /\ notifications'[nextNotification].status \in {"sent", "failed"}
               ELSE DOMAIN notifications' = DOMAIN notifications
    ]_vars

\* C27: in every reachable state every message's thread_id names a thread
\* that exists.
C27_MessagesHaveThread ==
  \A m \in DOMAIN messages : messages[m].thread_id \in DOMAIN threads

\* C28: in every reachable state every folder and every project file
\* belongs to a project that exists; deleteProject leaves no folder and no
\* file of the deleted project behind.
C28_FoldersAndFilesHaveProject ==
  /\ \A f \in DOMAIN folders : folders[f].project_id \in DOMAIN projects
  /\ \A f \in DOMAIN files : files[f].project_id \in DOMAIN projects

\* C29: updateProjectStatus with a note adds exactly one non-private status
\* message to one thread of the project and counts it once for the client:
\* the client counter of the project's existing thread goes up by 1, or the
\* status thread the call creates ends with client counter 1 and developer
\* counter 0; without a note nothing is added and no counter changes.
C29_ProjectStatusCountsOnce ==
  \A p \in DOMAIN projects, now \in {clock, clock + 1} :
    LET r == updateProjectStatusTx(Db, p, TRUE, now)
        new == DOMAIN r.messages \ DOMAIN messages
    IN /\ updateProjectStatusTx(Db, p, FALSE, now) = Db
       /\ Cardinality(new) = 1
       /\ \A m \in DOMAIN messages : r.messages[m] = messages[m]
       /\ \A m \in new :
            /\ ~r.messages[m].is_private
            /\ r.messages[m].message_type = "status_update"
            /\ r.messages[m].thread_id \in ThreadsOf(r, p)
            /\ \A t \in DOMAIN r.threads :
                 IF t \in DOMAIN threads
                   THEN /\ r.threads[t].unread_count_developer = threads[t].unread_count_developer
                        /\ r.threads[t].unread_count_client =
                             threads[t].unread_count_client
                               + (IF t = r.messages[m].thread_id THEN 1 ELSE 0)
                   ELSE /\ t = r.messages[m].thread_id
                        /\ ThreadsOf(Db, p) = {}
                        /\ r.threads[t].unread_count_client = 1
                        /\ r.threads[t].unread_count_developer = 0

\* C30: when the project file of a message is removed with
\* deleteFileFromProject, neither a syncMessageFilesToProject run nor the
\* setupProjectFileSystem run the files view makes when checkProjectSetup
\* reports needsSetup creates a project file for that message again.
C30_DeletedFileStaysDeleted ==
  \A f \in DOMAIN files :
    files[f].message_id # NoId =>
      LET p == files[f].project_id
          mid == files[f].message_id
          db1 == deleteFileFromProjectTx(Db, f)
          synced == syncMessageFilesToProjectTx(db1, p)
          viewed == IF checkProjectSetup(db1, p).needsSetup
                      THEN setupProjectFileSystemTx(db1, p) ELSE db1
      IN /\ \A g \in DOMAIN synced.files :
              synced.files[g].message_id = mid => g \in DOMAIN db1.files
         /\ \A g \in DOMAIN viewed.files :
              viewed.files[g].message_id = mid => g \in DOMAIN db1.files

====
